---------------------------- MODULE Spec2Model ----------------------------
(***************************************************************************)
(* OpenLayers-React: binding the lifecycle of an OpenLayers Map (the       *)
(* "viewer") to the lifecycle of the React component that renders the div  *)
(* the map is attached to.                                                 *)
(*                                                                         *)
(* Two versions of the component OLMap are modelled side by side:          *)
(*   - the shared-mode OLMap (OLMap.tsx of "The Better Implementation"),   *)
(*     which takes the map from OLMapContext and only sets its target;     *)
(*   - the private-mode OLMap ("The Basic Implementation"), which          *)
(*     constructs its own map inside the effect.                           *)
(*                                                                         *)
(* React drives the components: a component's body runs in the render      *)
(* phase, the commit inserts or removes its div and sets or clears the     *)
(* ref, and the functions given to useEffect run in the passive phase that *)
(* follows the commit: first the cleanups of the components the commit     *)
(* removed, then the effects of the components it inserted.  Pending       *)
(* passive effects are flushed before React renders or commits again.      *)
(***************************************************************************)
EXTENDS Naturals, Sequences, FiniteSets

\* Bounds of the model.
MaxMounts == 4      \* mounts begun in one run, over all sites
MaxRenders == 2     \* re-renders of mounted instances in one run

\* Component instances (sites in the tree), by the version of OLMap they run.
SharedInst == {"A", "B"}
PrivateInst == {"P", "Q"}
Inst == SharedInst \cup PrivateInst

\* A mount event of a site: the site and the number of the mount.  The div
\* that React creates for the mount is identified with the mount.
Mounts == Inst \X (1..MaxMounts)

\* Values a target or a ref can hold besides a div; shaped like a mount so
\* that every target has a site component.
Null == <<"null", 0>>              \* useRef(null)
Undefined == <<"undefined", 0>>    \* setTarget(undefined), a Map built without target
MapId == <<"map", 0>>              \* target: 'map', the id of a div
None == 0                          \* the name olMap is bound to no Map
Module == <<"module", 0>>          \* who made a Map constructed at module load

Phases == {"unmounted", "rendered", "committed", "mounted", "deleted"}

VARIABLES
    maps,       \* the Map objects constructed so far, by identity 1..Len(maps)
    olMap,      \* olMap[i]: the Map the name olMap of instance i is bound to
    mapRef,     \* mapRef[i]: mapRef.current of instance i
    dom,        \* the divs that are in the document
    phase,      \* phase[i]: where instance i is in React's lifecycle
    gen,        \* gen[i]: number of mounts of site i begun so far
    renders,    \* renders[i]: re-renders of the instances at site i so far
    calls       \* calls[m]: attach and detach steps run by mount m (a spy)

vars == <<maps, olMap, mapRef, dom, phase, gen, renders, calls>>

----------------------------------------------------------------------------
\* new Map({target, layers: [new TileLayer({source: new OSM()})],
\*          view: new View({center: [0, 0], zoom: 2})})
\* madeBy records who ran the constructor.
NewMap(target, by) ==
    [target |-> target, layers |-> <<"OSM">>, center |-> <<0, 0>>, zoom |-> 2,
     madeBy |-> by]

\* The default value of the context: the first Map, built at module load.
OLMapContext == 1

\* useContext(OLMapContext) with no provider in the tree: the default value.
useContext(ctx) == ctx

\* A variant of setTarget: a Map that has a target keeps it when it is given
\* another (the first call wins).
setTargetFirstWins(ms, v, t) ==
    IF ms[v].target \in {Null, Undefined} \/ t \in {Null, Undefined}
    THEN [ms EXCEPT ![v].target = t]
    ELSE ms

\* map.setTarget(t) on Map v: only the target changes, the last call wins.
setTarget(ms, v, t) == [ms EXCEPT ![v].target = t]

\* The mount event instance i is in.
Mount(i) == <<i, gen[i]>>

Spy(m, op) == [calls EXCEPT ![m][op] = @ + 1]

RECURSIVE SumOver(_, _)
SumOver(f, S) ==
    IF S = {} THEN 0
    ELSE LET x == CHOOSE y \in S : TRUE IN f[x] + SumOver(f, S \ {x})

\* The run may still begin a mount, or re-render an instance.
MayMount == SumOver(gen, Inst) < MaxMounts
MayRerender == SumOver(renders, Inst) < MaxRenders

\* No effect or cleanup of an earlier commit is waiting to run.
NoPending == \A i \in Inst : phase[i] \notin {"committed", "deleted"}

\* A variant of Init: the Map of the context constructed with target: 'map',
\* as in main.js.
InitTargeted ==
    /\ maps = <<NewMap(MapId, Module)>>
    /\ olMap = [i \in Inst |-> None]
    /\ mapRef = [i \in Inst |-> Null]
    /\ dom = {}
    /\ phase = [i \in Inst |-> "unmounted"]
    /\ gen = [i \in Inst |-> 0]
    /\ renders = [i \in Inst |-> 0]
    /\ calls = [m \in Mounts |-> [attach |-> 0, detach |-> 0]]

Init ==
    /\ maps = <<NewMap(Undefined, Module)>>
    /\ olMap = [i \in Inst |-> None]
    /\ mapRef = [i \in Inst |-> Null]
    /\ dom = {}
    /\ phase = [i \in Inst |-> "unmounted"]
    /\ gen = [i \in Inst |-> 0]
    /\ renders = [i \in Inst |-> 0]
    /\ calls = [m \in Mounts |-> [attach |-> 0, detach |-> 0]]

----------------------------------------------------------------------------
\* A variant of SharedRender: the naive implementation, which targets the map
\* in the body of the component, before the div exists.
SharedRenderNaive(i) ==
    /\ i \in SharedInst
    /\ phase[i] = "unmounted"
    /\ NoPending
    /\ MayMount
    /\ gen' = [gen EXCEPT ![i] = @ + 1]
    /\ olMap' = [olMap EXCEPT ![i] = useContext(OLMapContext)]
    /\ mapRef' = [mapRef EXCEPT ![i] = Null]
    /\ phase' = [phase EXCEPT ![i] = "rendered"]
    /\ maps' = setTarget(maps, useContext(OLMapContext), Null)
    /\ calls' = Spy(<<i, gen[i] + 1>>, "attach")
    /\ UNCHANGED <<dom, renders>>

\* A variant of SharedRender: the holder as a factory, a Map per call.
SharedRenderFactory(i) ==
    /\ i \in SharedInst
    /\ phase[i] = "unmounted"
    /\ NoPending
    /\ MayMount
    /\ gen' = [gen EXCEPT ![i] = @ + 1]
    /\ maps' = Append(maps, NewMap(Undefined, Module))
    /\ olMap' = [olMap EXCEPT ![i] = Len(maps) + 1]
    /\ mapRef' = [mapRef EXCEPT ![i] = Null]
    /\ phase' = [phase EXCEPT ![i] = "rendered"]
    /\ UNCHANGED <<dom, renders, calls>>

\* Shared mode: the body of OLMap on the first render of an instance.
SharedRender(i) ==
    /\ i \in SharedInst
    /\ phase[i] = "unmounted"
    /\ NoPending
    /\ MayMount
    /\ gen' = [gen EXCEPT ![i] = @ + 1]
    /\ olMap' = [olMap EXCEPT ![i] = useContext(OLMapContext)]
    /\ mapRef' = [mapRef EXCEPT ![i] = Null]
    /\ phase' = [phase EXCEPT ![i] = "rendered"]
    /\ UNCHANGED <<maps, dom, renders, calls>>

\* Private mode: the body of OLMap on the first render of an instance.
PrivateRender(i) ==
    /\ i \in PrivateInst
    /\ phase[i] = "unmounted"
    /\ NoPending
    /\ MayMount
    /\ gen' = [gen EXCEPT ![i] = @ + 1]
    /\ mapRef' = [mapRef EXCEPT ![i] = Null]
    /\ phase' = [phase EXCEPT ![i] = "rendered"]
    /\ UNCHANGED <<maps, olMap, dom, renders, calls>>

\* React's commit: the divs of the instances rendered in this pass are
\* inserted and their refs set; the divs of the instances in D are removed
\* and their refs cleared.  The effects and cleanups are left pending.
Commit(D) ==
    LET R == {i \in Inst : phase[i] = "rendered"} IN
    /\ NoPending
    /\ D \subseteq {i \in Inst : phase[i] = "mounted"}
    /\ R \cup D # {}
    /\ dom' = (dom \ {Mount(i) : i \in D}) \cup {Mount(i) : i \in R}
    /\ mapRef' = [i \in Inst |-> IF i \in R THEN Mount(i)
                                 ELSE IF i \in D THEN Null ELSE mapRef[i]]
    /\ phase' = [i \in Inst |-> IF i \in R THEN "committed"
                                ELSE IF i \in D THEN "deleted" ELSE phase[i]]
    /\ UNCHANGED <<maps, olMap, gen, renders, calls>>

\* The passive phase runs the cleanups of a commit before its effects.
EffectsMayRun == \A j \in Inst : phase[j] # "deleted"

\* A variant of SharedEffect: the effect of the private version, which
\* constructs a Map of its own, in the shared component.
SharedEffectFresh(i) ==
    /\ i \in SharedInst
    /\ phase[i] = "committed"
    /\ EffectsMayRun
    /\ maps' = Append(maps, NewMap(mapRef[i], Mount(i)))
    /\ olMap' = [olMap EXCEPT ![i] = Len(maps) + 1]
    /\ calls' = Spy(Mount(i), "attach")
    /\ phase' = [phase EXCEPT ![i] = "mounted"]
    /\ UNCHANGED <<mapRef, dom, gen, renders>>

\* Shared mode: the function given to useEffect.
SharedEffect(i) ==
    /\ i \in SharedInst
    /\ phase[i] = "committed"
    /\ EffectsMayRun
    /\ maps' = setTarget(maps, olMap[i], mapRef[i])
    /\ calls' = Spy(Mount(i), "attach")
    /\ phase' = [phase EXCEPT ![i] = "mounted"]
    /\ UNCHANGED <<olMap, mapRef, dom, gen, renders>>

\* A variant of PrivateEffect: the effect of the shared version, which
\* targets the Map of the context, in the private component.
PrivateEffectShared(i) ==
    /\ i \in PrivateInst
    /\ phase[i] = "committed"
    /\ EffectsMayRun
    /\ maps' = setTarget(maps, OLMapContext, mapRef[i])
    /\ olMap' = [olMap EXCEPT ![i] = OLMapContext]
    /\ calls' = Spy(Mount(i), "attach")
    /\ phase' = [phase EXCEPT ![i] = "mounted"]
    /\ UNCHANGED <<mapRef, dom, gen, renders>>

\* Private mode: the function given to useEffect.
PrivateEffect(i) ==
    /\ i \in PrivateInst
    /\ phase[i] = "committed"
    /\ EffectsMayRun
    /\ maps' = Append(maps, NewMap(mapRef[i], Mount(i)))
    /\ olMap' = [olMap EXCEPT ![i] = Len(maps) + 1]
    /\ calls' = Spy(Mount(i), "attach")
    /\ phase' = [phase EXCEPT ![i] = "mounted"]
    /\ UNCHANGED <<mapRef, dom, gen, renders>>

\* A variant of SharedCleanup: the effect returns no cleanup.
SharedCleanupNoDetach(i) ==
    /\ i \in SharedInst
    /\ phase[i] = "deleted"
    /\ olMap' = [olMap EXCEPT ![i] = None]
    /\ phase' = [phase EXCEPT ![i] = "unmounted"]
    /\ UNCHANGED <<maps, calls, mapRef, dom, gen, renders>>

\* A variant of SharedCleanup: the cleanup clears the target only when the
\* Map is still on the div of its own mount.
SharedCleanupIfMine(i) ==
    /\ i \in SharedInst
    /\ phase[i] = "deleted"
    /\ maps' = IF maps[olMap[i]].target = Mount(i)
               THEN setTarget(maps, olMap[i], Undefined)
               ELSE maps
    /\ calls' = Spy(Mount(i), "detach")
    /\ olMap' = [olMap EXCEPT ![i] = None]
    /\ phase' = [phase EXCEPT ![i] = "unmounted"]
    /\ UNCHANGED <<mapRef, dom, gen, renders>>

\* Shared mode: the cleanup the effect returned.
SharedCleanup(i) ==
    /\ i \in SharedInst
    /\ phase[i] = "deleted"
    /\ maps' = setTarget(maps, olMap[i], Undefined)
    /\ calls' = Spy(Mount(i), "detach")
    /\ olMap' = [olMap EXCEPT ![i] = None]
    /\ phase' = [phase EXCEPT ![i] = "unmounted"]
    /\ UNCHANGED <<mapRef, dom, gen, renders>>

\* A variant of PrivateCleanup: the effect returns no cleanup.
PrivateCleanupNoDetach(i) ==
    /\ i \in PrivateInst
    /\ phase[i] = "deleted"
    /\ olMap' = [olMap EXCEPT ![i] = None]
    /\ phase' = [phase EXCEPT ![i] = "unmounted"]
    /\ UNCHANGED <<maps, calls, mapRef, dom, gen, renders>>

\* Private mode: the cleanup the effect returned.
PrivateCleanup(i) ==
    /\ i \in PrivateInst
    /\ phase[i] = "deleted"
    /\ maps' = setTarget(maps, olMap[i], Undefined)
    /\ calls' = Spy(Mount(i), "detach")
    /\ olMap' = [olMap EXCEPT ![i] = None]
    /\ phase' = [phase EXCEPT ![i] = "unmounted"]
    /\ UNCHANGED <<mapRef, dom, gen, renders>>

\* A variant of SharedRerender: useEffect without the dependency list, so
\* that every re-render runs the cleanup and the effect again.
SharedRerenderNoDeps(i) ==
    /\ i \in SharedInst
    /\ phase[i] = "mounted"
    /\ NoPending
    /\ MayRerender
    /\ renders' = [renders EXCEPT ![i] = @ + 1]
    /\ olMap' = [olMap EXCEPT ![i] = useContext(OLMapContext)]
    /\ maps' = setTarget(setTarget(maps, olMap[i], Undefined), olMap[i], mapRef[i])
    /\ calls' = [calls EXCEPT ![Mount(i)] =
                   [attach |-> @.attach + 1, detach |-> @.detach + 1]]
    /\ UNCHANGED <<mapRef, dom, phase, gen>>

\* Shared mode: the body of OLMap on a re-render of a mounted instance.  The
\* dependency list [] is unchanged, so React runs neither cleanup nor effect.
SharedRerender(i) ==
    /\ i \in SharedInst
    /\ phase[i] = "mounted"
    /\ NoPending
    /\ MayRerender
    /\ renders' = [renders EXCEPT ![i] = @ + 1]
    /\ olMap' = [olMap EXCEPT ![i] = useContext(OLMapContext)]
    /\ UNCHANGED <<maps, mapRef, dom, phase, gen, calls>>

\* A variant of PrivateRerender: useEffect without the dependency list, so
\* that every re-render detaches the Map and constructs another.
PrivateRerenderNoDeps(i) ==
    /\ i \in PrivateInst
    /\ phase[i] = "mounted"
    /\ NoPending
    /\ MayRerender
    /\ renders' = [renders EXCEPT ![i] = @ + 1]
    /\ maps' = Append(setTarget(maps, olMap[i], Undefined),
                      NewMap(mapRef[i], Mount(i)))
    /\ olMap' = [olMap EXCEPT ![i] = Len(maps) + 1]
    /\ calls' = [calls EXCEPT ![Mount(i)] =
                   [attach |-> @.attach + 1, detach |-> @.detach + 1]]
    /\ UNCHANGED <<mapRef, dom, phase, gen>>

\* Private mode: the body of OLMap on a re-render of a mounted instance.
PrivateRerender(i) ==
    /\ i \in PrivateInst
    /\ phase[i] = "mounted"
    /\ NoPending
    /\ MayRerender
    /\ renders' = [renders EXCEPT ![i] = @ + 1]
    /\ UNCHANGED <<maps, olMap, mapRef, dom, phase, gen, calls>>

Next ==
    \/ \E i \in Inst : SharedRender(i)
    \/ \E i \in Inst : PrivateRender(i)
    \/ \E D \in SUBSET Inst : Commit(D)
    \/ \E i \in Inst : SharedEffect(i)
    \/ \E i \in Inst : PrivateEffect(i)
    \/ \E i \in Inst : SharedCleanup(i)
    \/ \E i \in Inst : PrivateCleanup(i)
    \/ \E i \in Inst : SharedRerender(i)
    \/ \E i \in Inst : PrivateRerender(i)

Spec == Init /\ [][Next]_vars

----------------------------------------------------------------------------
TypeOK ==
    /\ \A v \in DOMAIN maps : maps[v].target \in Mounts \cup {Null, Undefined}
    /\ olMap \in [Inst -> (1..Len(maps)) \cup {None}]
    /\ dom \subseteq Mounts
    /\ phase \in [Inst -> Phases]
    /\ gen \in [Inst -> 0..MaxMounts]

----------------------------------------------------------------------------
\* Helpers of the properties.

Detached(t) == t \in {Null, Undefined}

\* Mount m has begun and has run to the end of its unmount.
Over(m) ==
    \/ m[2] < gen[m[1]]
    \/ m[2] = gen[m[1]] /\ phase[m[1]] = "unmounted"

\* The Maps a mount constructed.
MadeBy(m) == {v \in DOMAIN maps : maps[v].madeBy = m}

\* The attach step of mount m runs in this step.
Attaches(m) == calls'[m].attach # calls[m].attach

----------------------------------------------------------------------------
\* C1 (P1, attach-after-render): in both versions of OLMap the attach step
\* of a mount (setTarget(div) in shared mode, new Map({target: div}) in
\* private mode) runs only in a step that starts with the div of that mount
\* already committed to the document and held by the ref, and it gives the
\* map exactly that div; no map is ever given a div that is not in the
\* document at the time.
AttachAfterRender ==
    [][ /\ \A m \in Mounts : Attaches(m) =>
              /\ m \in dom
              /\ phase[m[1]] = "committed"
              /\ mapRef[m[1]] = m
              /\ \E v \in DOMAIN maps' : maps'[v].target = m
        /\ \A v \in DOMAIN maps' :
              (/\ ~Detached(maps'[v].target)
               /\ (v \in DOMAIN maps => maps[v].target # maps'[v].target))
              => maps'[v].target \in dom ]_vars

\* A shared and a private instance are mounted, each with its map on the div
\* its commit inserted.
AttachedAfterCommit ==
    \E s \in SharedInst, p \in PrivateInst :
        /\ phase[s] = "mounted" /\ phase[p] = "mounted"
        /\ maps[olMap[s]].target = Mount(s) /\ Mount(s) \in dom
        /\ maps[olMap[p]].target = Mount(p) /\ Mount(p) \in dom

\* C2 (P2, detach-on-unmount, count): a mount has run its detach step
\* (setTarget(undefined)) exactly once when its unmount has run to the end,
\* not at all before, and never without its attach step before it.
DetachOnUnmount ==
    \A m \in Mounts :
        /\ calls[m].detach = IF Over(m) THEN 1 ELSE 0
        /\ calls[m].detach <= calls[m].attach
        /\ calls[m].attach <= 1

\* A shared and a private mount have each attached once and detached once.
MountedAndUnmounted ==
    \E s \in SharedInst, p \in PrivateInst :
        /\ calls[<<s, 1>>] = [attach |-> 1, detach |-> 1]
        /\ calls[<<p, 1>>] = [attach |-> 1, detach |-> 1]

SingleSharingInstance ==
    /\ \A i \in SharedInst : phase[i] # "unmounted" => olMap[i] = OLMapContext
    /\ MadeBy(Module) = {OLMapContext}

\* Two shared instances are mounted at once, one of them re-rendered, and
\* hold the same Map.
TwoAdaptersOneViewer ==
    \E i, j \in SharedInst :
        /\ i # j
        /\ phase[i] = "mounted" /\ phase[j] = "mounted"
        /\ renders[i] > 0
        /\ olMap[i] = olMap[j]

NoDuplicateAttach ==
    /\ [](\A i \in Inst : phase[i] = "mounted" =>
            calls[Mount(i)] = [attach |-> 1, detach |-> 0])
    /\ [][renders' # renders => maps' = maps /\ calls' = calls]_vars

\* An instance in its first mount has been re-rendered MaxRenders times and
\* has attached once.
RerenderedWhileMounted ==
    \E i \in Inst :
        /\ phase[i] = "mounted" /\ gen[i] = 1
        /\ renders[i] = MaxRenders
        /\ calls[<<i, 1>>].attach = 1
        /\ maps[olMap[i]].target = <<i, 1>>

\* C7 as stated (single mounted site): at most one mounted instance holds a
\* given viewer at any time.
SingleMountedSite ==
    \A v \in DOMAIN maps :
        Cardinality({i \in Inst : phase[i] = "mounted" /\ olMap[i] = v}) <= 1

\* C8 as stated (private mode teardown): once a private mount has been
\* unmounted, no viewer constructed by that mount survives.
PrivateTeardown ==
    \A m \in Mounts : (m[1] \in PrivateInst /\ Over(m)) => MadeBy(m) = {}

\* C8 as amended: once a private mount has been unmounted, the one viewer it
\* constructed is still there, with its layers and view as constructed; it
\* is only detached (no target), and no instance refers to it any more.
PrivateDetachOnly ==
    \A m \in Mounts : (m[1] \in PrivateInst /\ Over(m)) =>
        \E v \in DOMAIN maps :
            /\ MadeBy(m) = {v}
            /\ maps[v] = NewMap(Undefined, m)
            /\ \A i \in Inst : olMap[i] # v

\* A private instance was mounted twice and unmounted twice: two detached
\* viewers are left behind.
PrivateUnmountedTwice ==
    \E p \in PrivateInst :
        /\ gen[p] = 2 /\ phase[p] = "unmounted"
        /\ Cardinality(MadeBy(<<p, 1>>) \cup MadeBy(<<p, 2>>)) = 2

\* C9 (private mode construction): a private mount has constructed one
\* viewer once its effect has run and none before; a viewer is constructed
\* only by the effect of a committed private instance, targeted at the div
\* of that mount, never by a render or a re-render; and a cleanup changes
\* only the viewer its own mount constructed, by clearing its target.
PrivateConstruction ==
    /\ [](\A m \in Mounts : m[1] \in PrivateInst =>
            /\ Cardinality(MadeBy(m)) = calls[m].attach
            /\ calls[m].attach =
                 IF \/ Over(m)
                    \/ m = Mount(m[1]) /\ phase[m[1]] \in {"mounted", "deleted"}
                 THEN 1 ELSE 0)
    /\ [](\A i \in PrivateInst :
            /\ phase[i] \in {"mounted", "deleted"} => MadeBy(Mount(i)) = {olMap[i]}
            /\ phase[i] = "mounted" => maps[olMap[i]].target = Mount(i))
    /\ [][ /\ Len(maps') # Len(maps) =>
                \E i \in PrivateInst :
                    /\ phase[i] = "committed" /\ phase'[i] = "mounted"
                    /\ Mount(i) \in dom
                    /\ maps' = Append(maps, NewMap(Mount(i), Mount(i)))
           /\ \A v \in DOMAIN maps :
                (v # OLMapContext /\ v \in DOMAIN maps' /\ maps'[v] # maps[v]) =>
                    \E i \in PrivateInst :
                        /\ phase[i] = "deleted" /\ phase'[i] = "unmounted"
                        /\ maps[v].madeBy = Mount(i)
                        /\ maps' = setTarget(maps, v, Undefined) ]_vars

\* One private instance is mounted on its own viewer and has been
\* re-rendered; another has been unmounted and its viewer detached.
PrivateMountedAndUnmounted ==
    \E p, q \in PrivateInst :
        /\ p # q
        /\ phase[p] = "mounted" /\ renders[p] > 0
        /\ maps[olMap[p]].target = Mount(p)
        /\ Over(<<q, 1>>)
        /\ \E v \in MadeBy(<<q, 1>>) : maps[v].target = Undefined

\* A step of a shared instance.
SharedStep ==
    \E i \in SharedInst :
        SharedRender(i) \/ SharedEffect(i) \/ SharedCleanup(i) \/ SharedRerender(i)

\* C10 (shared mode never constructs or destroys): a step of a shared
\* instance leaves the set of viewers as it is and changes nothing of any
\* viewer but the target of the holder's; the holder's viewer keeps its
\* center, zoom and layers; and in a run of shared instances only, the
\* holder's viewer is the only one there is.
SharedOnlySetsTarget ==
    /\ [](\E t \in Mounts \cup {Null, Undefined} :
             maps[OLMapContext] = NewMap(t, Module))
    /\ []((\A p \in PrivateInst : gen[p] = 0) => Len(maps) = 1)
    /\ [][SharedStep =>
            /\ DOMAIN maps' = DOMAIN maps
            /\ \A v \in DOMAIN maps :
                 /\ v # OLMapContext => maps'[v] = maps[v]
                 /\ maps'[v] = [maps[v] EXCEPT !.target = maps'[v].target] ]_vars

\* Shared instances have been mounted, re-rendered and unmounted, no private
\* one has, and the holder's viewer is alone, detached and as constructed.
SharedLifecycleOneViewer ==
    /\ \A p \in PrivateInst : gen[p] = 0
    /\ \E a, b \in SharedInst :
        /\ a # b /\ gen[a] = 2 /\ gen[b] >= 1 /\ renders[a] > 0
        /\ phase[a] = "unmounted" /\ phase[b] = "unmounted"
    /\ maps = <<NewMap(Undefined, Module)>>

\* C11 (holder starts detached): the Map of the context is constructed with
\* no target, and it has none in any state in which no shared instance has
\* yet run its attach step: module load, renders, commits and everything a
\* private instance does leave it without a target.
HolderStartsDetached ==
    (\A m \in Mounts : m[1] \in SharedInst => calls[m].attach = 0)
        => maps[OLMapContext].target = Undefined

\* A shared instance is rendered and committed, its effect still pending, a
\* private instance is mounted, and the holder's Map has no target yet.
HolderDetachedBeforeFirstAttach ==
    /\ \E s \in SharedInst : phase[s] = "committed" /\ Mount(s) \in dom
    /\ \E p \in PrivateInst : phase[p] = "mounted"
    /\ \A m \in Mounts : m[1] \in SharedInst => calls[m].attach = 0
    /\ maps[OLMapContext].target = Undefined

\* The targets the program can pass to setTarget in the current state.
Targets == dom \cup {Null, Undefined} \cup {maps[v].target : v \in DOMAIN maps}

----------------------------------------------------------------------------
(***************************************************************************)
(* The naive implementation: OLMap constructs the Map in its body, with    *)
(* target: 'map', and returns <div id="map"/>.  There is no ref and no     *)
(* effect.  The constructor looks the id up in the document when it runs   *)
(* and puts the map's viewport into the element it finds, if any.          *)
(***************************************************************************)

\* new Map({target: 'map', layers, view}); element is the div in which the
\* constructor found the id and put the viewport, Null when it found none.
NaiveMap(by, el) ==
    [target |-> MapId, layers |-> <<"OSM">>, center |-> <<0, 0>>, zoom |-> 2,
     madeBy |-> by, element |-> el]

\* The sites of the tree that hold an instance of the naive OLMap, in the
\* order of the document.
NaiveSites == <<"P", "Q">>
NaiveInst == {NaiveSites[k] : k \in DOMAIN NaiveSites}

\* document.getElementById('map'): the first div of the document, every div
\* of the program having that id; Null when the document has none.
getElementById ==
    IF dom = {} THEN Null
    ELSE CHOOSE e \in dom :
           \A f \in dom : \E k, l \in DOMAIN NaiveSites :
               k <= l /\ NaiveSites[k] = e[1] /\ NaiveSites[l] = f[1]

InitNaive ==
    /\ maps = <<>>
    /\ olMap = [i \in Inst |-> None]
    /\ mapRef = [i \in Inst |-> Null]
    /\ dom = {}
    /\ phase = [i \in Inst |-> "unmounted"]
    /\ gen = [i \in Inst |-> 0]
    /\ renders = [i \in Inst |-> 0]
    /\ calls = [m \in Mounts |-> [attach |-> 0, detach |-> 0]]

\* A variant of NaiveRender: the Map ends up in the div the component
\* returns, as if the div had been in the document when it was constructed.
NaiveRenderDivFirst(i) ==
    /\ i \in NaiveInst
    /\ phase[i] = "unmounted"
    /\ MayMount
    /\ gen' = [gen EXCEPT ![i] = @ + 1]
    /\ maps' = Append(maps, NaiveMap(<<i, gen[i] + 1>>, <<i, gen[i] + 1>>))
    /\ olMap' = [olMap EXCEPT ![i] = Len(maps) + 1]
    /\ phase' = [phase EXCEPT ![i] = "rendered"]
    /\ UNCHANGED <<mapRef, dom, renders, calls>>

\* The body of the naive OLMap on the first render of an instance.
NaiveRender(i) ==
    /\ i \in NaiveInst
    /\ phase[i] = "unmounted"
    /\ MayMount
    /\ gen' = [gen EXCEPT ![i] = @ + 1]
    /\ maps' = Append(maps, NaiveMap(<<i, gen[i] + 1>>, getElementById))
    /\ olMap' = [olMap EXCEPT ![i] = Len(maps) + 1]
    /\ phase' = [phase EXCEPT ![i] = "rendered"]
    /\ UNCHANGED <<mapRef, dom, renders, calls>>

\* React's commit of naive instances: the divs of the rendered instances
\* are inserted, those of the instances in D removed; nothing is pending.
NaiveCommit(D) ==
    LET R == {i \in Inst : phase[i] = "rendered"} IN
    /\ D \subseteq {i \in Inst : phase[i] = "mounted"}
    /\ R \cup D # {}
    /\ dom' = (dom \ {Mount(i) : i \in D}) \cup {Mount(i) : i \in R}
    /\ phase' = [i \in Inst |-> IF i \in R THEN "mounted"
                                ELSE IF i \in D THEN "unmounted" ELSE phase[i]]
    /\ olMap' = [i \in Inst |-> IF i \in D THEN None ELSE olMap[i]]
    /\ UNCHANGED <<maps, mapRef, gen, renders, calls>>

\* The body of the naive OLMap on a re-render: another Map is constructed.
NaiveRerender(i) ==
    /\ i \in NaiveInst
    /\ phase[i] = "mounted"
    /\ MayRerender
    /\ renders' = [renders EXCEPT ![i] = @ + 1]
    /\ maps' = Append(maps, NaiveMap(Mount(i), getElementById))
    /\ olMap' = [olMap EXCEPT ![i] = Len(maps) + 1]
    /\ UNCHANGED <<mapRef, dom, phase, gen, calls>>

NextNaive ==
    \/ \E i \in Inst : NaiveRender(i)
    \/ \E D \in SUBSET Inst : NaiveCommit(D)
    \/ \E i \in Inst : NaiveRerender(i)

SpecNaive == InitNaive /\ [][NextNaive]_vars

\* The Map a mount constructed in its first render.
FirstMadeBy(m) == CHOOSE v \in MadeBy(m) : \A w \in MadeBy(m) : v <= w

----------------------------------------------------------------------------
(***************************************************************************)
(* Shared mode with one site in use at a time: the parent renders at most  *)
(* one shared OLMap, which it may move from one site to another (the       *)
(* commit that inserts the new instance removes the old one).              *)
(***************************************************************************)

\* The shared instances that are in the tree.
InTree(ph) == {i \in SharedInst : ph[i] \in {"committed", "mounted"}}

\* First render of a shared instance, no other being rendered in the pass.
DisjointRender(i) ==
    /\ \A j \in SharedInst : phase[j] # "rendered"
    /\ SharedRender(i)

\* A commit that leaves at most one shared instance in the tree.
DisjointCommit(D) ==
    /\ Commit(D)
    /\ Cardinality(InTree(phase')) <= 1

NextDisjoint ==
    \/ \E i \in SharedInst : DisjointRender(i)
    \/ \E D \in SUBSET SharedInst : DisjointCommit(D)
    \/ \E i \in SharedInst : SharedEffect(i)
    \/ \E i \in SharedInst : SharedCleanup(i)
    \/ \E i \in SharedInst : SharedRerender(i)

SpecDisjoint == Init /\ [][NextDisjoint]_vars

\* C14 (shared-mode state machine): with one shared instance in the tree at
\* a time, in every state with no effect or cleanup pending the holder's
\* viewer has a target exactly when an instance is mounted, and the target
\* is the div of that instance; otherwise it has none.
SharedStateMachine ==
    NoPending =>
        LET M == {i \in SharedInst : phase[i] = "mounted"} IN
        /\ Cardinality(M) <= 1
        /\ M = {} => maps[OLMapContext].target = Undefined
        /\ \A i \in M : /\ maps[OLMapContext].target = Mount(i)
                        /\ Mount(i) \in dom

\* The cycle has run more than once: a site is in its second mount, after a
\* mount at the other site, and the viewer is on the div of that mount.
AttachedAgain ==
    \E a, b \in SharedInst :
        /\ a # b /\ NoPending
        /\ gen[a] = 2 /\ phase[a] = "mounted"
        /\ gen[b] >= 1 /\ phase[b] = "unmounted"
        /\ maps[OLMapContext].target = <<a, 2>>

----------------------------------------------------------------------------
\* C15 (single-writer discipline): a shared mount calls setTarget only in
\* two steps: its effect, which runs when its div is committed and it has
\* not attached yet, and its cleanup, which runs when React has removed it
\* and it has attached; no call comes from a render or a re-render, from a
\* mount that has not begun or from one whose unmount has run to the end;
\* and the holder's Map changes in no step without such a call.
SingleWriter ==
    [][ /\ \A m \in Mounts : (m[1] \in SharedInst /\ calls'[m] # calls[m]) =>
              /\ m = Mount(m[1])
              /\ \/ /\ phase[m[1]] = "committed" /\ phase'[m[1]] = "mounted"
                    /\ calls[m] = [attach |-> 0, detach |-> 0]
                    /\ calls'[m] = [attach |-> 1, detach |-> 0]
                 \/ /\ phase[m[1]] = "deleted" /\ phase'[m[1]] = "unmounted"
                    /\ calls[m] = [attach |-> 1, detach |-> 0]
                    /\ calls'[m] = [attach |-> 1, detach |-> 1]
        /\ maps'[OLMapContext] # maps[OLMapContext] =>
              \E m \in Mounts : m[1] \in SharedInst /\ calls'[m] # calls[m] ]_vars

\* One shared site has been mounted and unmounted and is rendered again,
\* without a call yet; the other is mounted and has called once.
WritersInTurn ==
    \E a, b \in SharedInst :
        /\ a # b
        /\ calls[<<a, 1>>] = [attach |-> 1, detach |-> 1]
        /\ gen[a] = 2 /\ phase[a] = "rendered"
        /\ calls[<<a, 2>>] = [attach |-> 0, detach |-> 0]
        /\ phase[b] = "mounted"
        /\ calls[Mount(b)] = [attach |-> 1, detach |-> 0]

\* C16 (the shared cleanup is unconditional): the cleanup of a shared
\* instance leaves the holder's Map without target whatever its target was,
\* the effect of a shared instance leaves it on the div of that instance,
\* and every other step leaves its target as it is: the target is decided by
\* the last effect or cleanup alone.
UnconditionalCleanup ==
    [][ /\ \A i \in SharedInst :
              /\ (phase[i] = "deleted" /\ phase'[i] = "unmounted")
                    => maps'[OLMapContext].target = Undefined
              /\ (phase[i] = "committed" /\ phase'[i] = "mounted")
                    => maps'[OLMapContext].target = <<i, gen[i]>>
        /\ (\A i \in SharedInst :
              ~(phase[i] \in {"deleted", "committed"} /\ phase'[i] # phase[i]))
              => maps'[OLMapContext].target = maps[OLMapContext].target ]_vars

\* A was mounted, B was mounted, A has been unmounted: B is still mounted,
\* its div is in the document, and the holder's Map has no target.
DetachedWhileMounted ==
    \E a, b \in SharedInst :
        /\ a # b /\ NoPending
        /\ gen[a] = 1 /\ phase[a] = "unmounted"
        /\ gen[b] = 1 /\ phase[b] = "mounted" /\ Mount(b) \in dom
        /\ maps[OLMapContext].target = Undefined

----------------------------------------------------------------------------
\* A step of the passive phase: an effect or a cleanup of some instance.
Passive ==
    \E i \in Inst :
        SharedEffect(i) \/ PrivateEffect(i) \/ SharedCleanup(i) \/ PrivateCleanup(i)

\* React flushes the passive phase of a commit: while an effect or a cleanup
\* is pending, one of them runs (weak fairness of Passive).
\* The sites in use in the runs checked for liveness: two shared instances
\* and a private one.
LiveInst == SharedInst \cup {"P"}

NextLive ==
    \/ \E i \in LiveInst : SharedRender(i)
    \/ \E i \in LiveInst : PrivateRender(i)
    \/ \E D \in SUBSET LiveInst : Commit(D)
    \/ \E i \in LiveInst : SharedEffect(i)
    \/ \E i \in LiveInst : PrivateEffect(i)
    \/ \E i \in LiveInst : SharedCleanup(i)
    \/ \E i \in LiveInst : PrivateCleanup(i)
    \/ \E i \in LiveInst : SharedRerender(i)
    \/ \E i \in LiveInst : PrivateRerender(i)

SpecLive == Init /\ [][NextLive]_vars /\ WF_vars(Passive)

\* Instance i is mounted, has run its attach step and its viewer is on its
\* div.
HasAttached(i) ==
    IF phase[i] = "mounted"
    THEN calls[Mount(i)].attach = 1 /\ maps[olMap[i]].target = Mount(i)
    ELSE FALSE

\* Instance i is unmounted and its last mount has run its detach step.
HasDetached(i) ==
    IF phase[i] = "unmounted" /\ gen[i] > 0
    THEN calls[Mount(i)].detach = 1
    ELSE FALSE

\* C17 (liveness): under that scheduling, every instance whose mount React
\* has committed comes to be mounted, having run its attach step, with its
\* viewer on its div; and every instance React has removed comes to be
\* unmounted, having run its detach step.  No effect or cleanup stays
\* pending for ever.
EffectsEventuallyRun ==
    \A i \in LiveInst :
        /\ (phase[i] = "committed") ~> HasAttached(i)
        /\ (phase[i] = "deleted") ~> HasDetached(i)

\* A commit has removed a shared instance and inserted a private one: a
\* cleanup and an effect are pending.
CleanupAndEffectPending ==
    \E i \in SharedInst, j \in PrivateInst :
        phase[i] = "deleted" /\ phase[j] = "committed"

----------------------------------------------------------------------------
\* Instance i takes a step of the private OLMap.
PrivateStep(i) ==
    PrivateRender(i) \/ PrivateEffect(i) \/ PrivateCleanup(i) \/ PrivateRerender(i)

\* C18 (isolation of private mode): a step of a private instance leaves the
\* holder's Map and the Maps of every other mount as they are: the only Map
\* it constructs, and the only Map whose target it changes, is the one made
\* by its own mount.  Private instances mounted at once hold different Maps,
\* and the holder's Map has no target while no shared instance has mounted.
PrivateIsolation ==
    /\ [](\A p, q \in PrivateInst :
            (p # q /\ phase[p] = "mounted" /\ phase[q] = "mounted") =>
                /\ olMap[p] # olMap[q]
                /\ olMap[p] # OLMapContext
                /\ maps[olMap[p]].target = Mount(p))
    /\ []((\A s \in SharedInst : gen[s] = 0) =>
            maps[OLMapContext].target = Undefined)
    /\ [][\A i \in PrivateInst : PrivateStep(i) =>
            /\ maps'[OLMapContext] = maps[OLMapContext]
            /\ \A v \in DOMAIN maps :
                 /\ v \in DOMAIN maps'
                 /\ maps'[v] # maps[v] =>
                      /\ maps[v].madeBy = Mount(i)
                      /\ maps'[v] = [maps[v] EXCEPT !.target = maps'[v].target]
            /\ \A v \in DOMAIN maps' \ DOMAIN maps :
                 maps'[v].madeBy = Mount(i) ]_vars

\* Two private instances are mounted at once, each on a Map of its own on
\* its own div, one of them re-rendered; a shared instance has come and
\* gone, and the holder's Map has no target.
PrivateSideBySide ==
    \E p, q \in PrivateInst :
        /\ p # q
        /\ phase[p] = "mounted" /\ phase[q] = "mounted"
        /\ renders[p] > 0
        /\ olMap[p] # olMap[q]
        /\ maps[olMap[p]].target = Mount(p)
        /\ maps[olMap[q]].target = Mount(q)
        /\ \E s \in SharedInst : gen[s] = 1
        /\ \A s \in SharedInst : phase[s] = "unmounted"
        /\ maps[OLMapContext].target = Undefined

=============================================================================
